---- MODULE Spec2Model ----
(***************************************************************************)
(* A model of @pleaseai/config: the zod schema of .please/config.yml and   *)
(* its defaults (schema.ts, as built in dist/index.js), the two loaders    *)
(* (loader.ts) and the generator and helpers (generator.ts, loader.ts).    *)
(*                                                                         *)
(* JavaScript values are tagged records, so that values of different       *)
(* JavaScript types can be compared; objects are functions from their own  *)
(* keys to values, and a key that is not in the domain is absent.          *)
(***************************************************************************)
EXTENDS Integers, Sequences, FiniteSets, TLC

----------------------------------------------------------------------------
(* JavaScript values *)

Undefined == [k |-> "undefined"]
Null == [k |-> "null"]
Bool(b) == [k |-> "boolean", b |-> b]
Num(n) == [k |-> "number", n |-> n]
Str(s) == [k |-> "string", s |-> s]
Arr(a) == [k |-> "array", a |-> a]
Obj(o) == [k |-> "object", o |-> o]
EmptyObj == Obj([key \in {} |-> Undefined])

IsObj(v) == v.k = "object"

\* v[key] in JavaScript, for an object v: undefined when the key is absent.
Get(v, key) == IF IsObj(v) /\ key \in DOMAIN v.o THEN v.o[key] ELSE Undefined

Has(v, key) == IsObj(v) /\ key \in DOMAIN v.o

\* { ...v, [key]: x } : v with key set to x (v is an object).
With(v, key, x) ==
    Obj([f \in (DOMAIN v.o) \cup {key} |-> IF f = key THEN x ELSE v.o[f]])

----------------------------------------------------------------------------
(* zod: the result of running a schema on a value is either a value or a   *)
(* set of issues, each with the path of the offending field.               *)

Ok(v) == [ok |-> TRUE, value |-> v, issues |-> {}]
Fail(path, code) ==
    [ok |-> FALSE, value |-> Undefined, issues |-> {[path |-> path, code |-> code]}]

ZodBoolean(v, path) ==
    IF v.k = "boolean" THEN Ok(v) ELSE Fail(path, "invalid_type")

ZodNumber(v, path) ==
    IF v.k = "number" THEN Ok(v) ELSE Fail(path, "invalid_type")

ZodString(v, path) ==
    IF v.k = "string" THEN Ok(v) ELSE Fail(path, "invalid_type")

ZodEnum(values, v, path) ==
    IF v.k = "string" /\ v.s \in values THEN Ok(v) ELSE Fail(path, "invalid_value")

\* z.array(z.string())
ZodArrayOfString(v, path) ==
    IF v.k # "array" THEN Fail(path, "invalid_type")
    ELSE IF \A i \in DOMAIN v.a : v.a[i].k = "string" THEN Ok(v)
    ELSE Fail(path, "invalid_type")

\* schema.default(d), given the inner schema's result on v: d for undefined,
\* the inner schema's result for anything else (null included).
ZodDefault(d, v, inner) ==
    IF v = Undefined THEN Ok(d) ELSE inner

\* schema.optional(), given the inner schema's result on v: undefined passes,
\* anything else is the inner schema's business.
ZodOptional(v, inner) ==
    IF v = Undefined THEN Ok(Undefined) ELSE inner

\* z.object(shape) on an object, given each shape key's result: the keys of
\* the shape only (unknown keys are stripped), a key whose value is undefined
\* left out; every field's issues when one fails.
ZodObjectResult(fs) ==
    IF \A key \in DOMAIN fs : fs[key].ok
    THEN Ok(Obj([key \in {x \in DOMAIN fs : fs[x].value # Undefined} |-> fs[key].value]))
    ELSE [ok |-> FALSE, value |-> Undefined,
          issues |-> UNION {fs[key].issues : key \in DOMAIN fs}]

----------------------------------------------------------------------------
(* schema.ts *)

SeverityLevel == {"LOW", "MEDIUM", "HIGH"}

\* Language with a third value let in.
Language_Open == {"ko", "en", "fr"}

Language == {"ko", "en"}

JsTrue == Bool(TRUE)
JsFalse == Bool(FALSE)

BoolDefault(d, v, path) == ZodDefault(d, v, ZodBoolean(v, path))

PullRequestOpenedDefault ==
    Obj([help |-> JsFalse, summary |-> JsTrue, code_review |-> JsTrue,
         include_drafts |-> JsTrue])

\* PullRequestOpenedConfigSchema with the fields' own .default() forgotten:
\* only the default of the whole object is left.
PullRequestOpenedConfigSchema_NoLeafDefaults(v, path) ==
    IF ~IsObj(v) THEN Fail(path, "invalid_type")
    ELSE ZodObjectResult(
        [help |-> ZodBoolean(Get(v, "help"), path \o <<"help">>),
         summary |-> ZodBoolean(Get(v, "summary"), path \o <<"summary">>),
         code_review |-> ZodBoolean(Get(v, "code_review"), path \o <<"code_review">>),
         include_drafts |-> ZodBoolean(Get(v, "include_drafts"), path \o <<"include_drafts">>)])

PullRequestOpenedConfigSchema(v, path) ==
    IF ~IsObj(v) THEN Fail(path, "invalid_type")
    ELSE ZodObjectResult(
        [help |-> BoolDefault(JsFalse, Get(v, "help"), path \o <<"help">>),
         summary |-> BoolDefault(JsTrue, Get(v, "summary"), path \o <<"summary">>),
         code_review |-> BoolDefault(JsTrue, Get(v, "code_review"), path \o <<"code_review">>),
         include_drafts |->
             BoolDefault(JsTrue, Get(v, "include_drafts"), path \o <<"include_drafts">>)])

\* The default of code_review in ConfigSchema drifted from DEFAULT_CONFIG.
CodeReviewDefault_Drifted ==
    Obj([disable |-> JsFalse,
         comment_severity_threshold |-> Str("MEDIUM"),
         max_review_comments |-> Num(-1),
         pull_request_opened |->
             Obj([help |-> JsTrue, summary |-> JsTrue, code_review |-> JsTrue,
                  include_drafts |-> JsTrue])])

CodeReviewDefault ==
    Obj([disable |-> JsFalse,
         comment_severity_threshold |-> Str("MEDIUM"),
         max_review_comments |-> Num(-1),
         pull_request_opened |->
             Obj([help |-> JsFalse, summary |-> JsTrue, code_review |-> JsTrue,
                  include_drafts |-> JsTrue])])

CodeReviewConfigSchema(v, path) ==
    IF ~IsObj(v) THEN Fail(path, "invalid_type")
    ELSE LET sev == Get(v, "comment_severity_threshold")
             max == Get(v, "max_review_comments")
             pro == Get(v, "pull_request_opened")
         IN ZodObjectResult(
        [disable |-> BoolDefault(JsFalse, Get(v, "disable"), path \o <<"disable">>),
         comment_severity_threshold |->
             ZodDefault(Str("MEDIUM"), sev,
                 ZodEnum(SeverityLevel, sev, path \o <<"comment_severity_threshold">>)),
         max_review_comments |->
             ZodDefault(Num(-1), max, ZodNumber(max, path \o <<"max_review_comments">>)),
         pull_request_opened |->
             ZodDefault(PullRequestOpenedDefault, pro,
                 ZodOptional(pro,
                     PullRequestOpenedConfigSchema(pro, path \o <<"pull_request_opened">>)))])

IssueOpenedSchema(v, path) ==
    IF ~IsObj(v) THEN Fail(path, "invalid_type")
    ELSE ZodObjectResult(
        [post_dev_help |->
             BoolDefault(JsTrue, Get(v, "post_dev_help"), path \o <<"post_dev_help">>)])

\* The triage object made strict: a key the shape does not know is an issue.
TriageSchema_Strict(v, path) ==
    IF ~IsObj(v) THEN Fail(path, "invalid_type")
    ELSE IF ~(DOMAIN v.o \subseteq {"auto", "manual", "update_issue_type"})
    THEN Fail(path, "unrecognized_keys")
    ELSE ZodObjectResult(
        [auto |-> BoolDefault(JsTrue, Get(v, "auto"), path \o <<"auto">>),
         manual |-> BoolDefault(JsTrue, Get(v, "manual"), path \o <<"manual">>),
         update_issue_type |->
             BoolDefault(JsTrue, Get(v, "update_issue_type"), path \o <<"update_issue_type">>)])

TriageSchema(v, path) ==
    IF ~IsObj(v) THEN Fail(path, "invalid_type")
    ELSE ZodObjectResult(
        [auto |-> BoolDefault(JsTrue, Get(v, "auto"), path \o <<"auto">>),
         manual |-> BoolDefault(JsTrue, Get(v, "manual"), path \o <<"manual">>),
         update_issue_type |->
             BoolDefault(JsTrue, Get(v, "update_issue_type"), path \o <<"update_issue_type">>)])

InvestigateSchema(v, path) ==
    IF ~IsObj(v) THEN Fail(path, "invalid_type")
    ELSE ZodObjectResult(
        [enabled |-> BoolDefault(JsTrue, Get(v, "enabled"), path \o <<"enabled">>),
         org_members_only |->
             BoolDefault(JsTrue, Get(v, "org_members_only"), path \o <<"org_members_only">>),
         auto_on_bug_label |->
             BoolDefault(JsFalse, Get(v, "auto_on_bug_label"), path \o <<"auto_on_bug_label">>)])

FixSchema(v, path) ==
    IF ~IsObj(v) THEN Fail(path, "invalid_type")
    ELSE ZodObjectResult(
        [enabled |-> BoolDefault(JsTrue, Get(v, "enabled"), path \o <<"enabled">>),
         org_members_only |->
             BoolDefault(JsTrue, Get(v, "org_members_only"), path \o <<"org_members_only">>),
         require_investigation |->
             BoolDefault(JsFalse, Get(v, "require_investigation"),
                         path \o <<"require_investigation">>),
         auto_create_pr |->
             BoolDefault(JsTrue, Get(v, "auto_create_pr"), path \o <<"auto_create_pr">>),
         auto_run_tests |->
             BoolDefault(JsTrue, Get(v, "auto_run_tests"), path \o <<"auto_run_tests">>)])

IssueWorkflowDefault ==
    Obj([disable |-> JsFalse,
         issue_opened |-> Obj([post_dev_help |-> JsTrue]),
         triage |-> Obj([auto |-> JsTrue, manual |-> JsTrue, update_issue_type |-> JsTrue]),
         investigate |->
             Obj([enabled |-> JsTrue, org_members_only |-> JsTrue,
                  auto_on_bug_label |-> JsFalse]),
         fix |->
             Obj([enabled |-> JsTrue, org_members_only |-> JsTrue,
                  require_investigation |-> JsFalse, auto_create_pr |-> JsTrue,
                  auto_run_tests |-> JsTrue])])

IssueWorkflowConfigSchema(v, path) ==
    IF ~IsObj(v) THEN Fail(path, "invalid_type")
    ELSE LET io == Get(v, "issue_opened")
             tr == Get(v, "triage")
             inv == Get(v, "investigate")
             fix == Get(v, "fix")
         IN ZodObjectResult(
        [disable |-> BoolDefault(JsFalse, Get(v, "disable"), path \o <<"disable">>),
         issue_opened |->
             ZodDefault(Obj([post_dev_help |-> JsTrue]), io,
                 IssueOpenedSchema(io, path \o <<"issue_opened">>)),
         triage |->
             ZodDefault(Obj([auto |-> JsTrue, manual |-> JsTrue, update_issue_type |-> JsTrue]),
                 tr, TriageSchema(tr, path \o <<"triage">>)),
         investigate |->
             ZodDefault(Obj([enabled |-> JsTrue, org_members_only |-> JsTrue,
                             auto_on_bug_label |-> JsFalse]),
                 inv, InvestigateSchema(inv, path \o <<"investigate">>)),
         fix |->
             ZodDefault(Obj([enabled |-> JsTrue, org_members_only |-> JsTrue,
                             require_investigation |-> JsFalse, auto_create_pr |-> JsTrue,
                             auto_run_tests |-> JsTrue]),
                 fix, FixSchema(fix, path \o <<"fix">>))])

CodeWorkspaceDefault == Obj([enabled |-> JsTrue])

CodeWorkspaceConfigSchema(v, path) ==
    IF ~IsObj(v) THEN Fail(path, "invalid_type")
    ELSE ZodObjectResult(
        [enabled |-> BoolDefault(JsTrue, Get(v, "enabled"), path \o <<"enabled">>)])

\* The integrations section. schema.ts itself is not among the sources and the
\* built dist/index.js predates the section, so it is written from the data
\* model (notion.{enabled, page_id?, database_id?}, slack.{enabled,
\* webhook_url?, channel?}, enabled false by default, the rest optional) and
\* from what the integration tests expect of it.
NotionSchema(v, path) ==
    IF ~IsObj(v) THEN Fail(path, "invalid_type")
    ELSE LET pid == Get(v, "page_id")
             did == Get(v, "database_id")
         IN ZodObjectResult(
        [enabled |-> BoolDefault(JsFalse, Get(v, "enabled"), path \o <<"enabled">>),
         page_id |-> ZodOptional(pid, ZodString(pid, path \o <<"page_id">>)),
         database_id |-> ZodOptional(did, ZodString(did, path \o <<"database_id">>))])

SlackSchema(v, path) ==
    IF ~IsObj(v) THEN Fail(path, "invalid_type")
    ELSE LET url == Get(v, "webhook_url")
             ch == Get(v, "channel")
         IN ZodObjectResult(
        [enabled |-> BoolDefault(JsFalse, Get(v, "enabled"), path \o <<"enabled">>),
         webhook_url |-> ZodOptional(url, ZodString(url, path \o <<"webhook_url">>)),
         channel |-> ZodOptional(ch, ZodString(ch, path \o <<"channel">>))])

IntegrationsSchemaDefault ==
    Obj([notion |-> Obj([enabled |-> JsFalse]), slack |-> Obj([enabled |-> JsFalse])])

IntegrationsConfigSchema(v, path) ==
    IF ~IsObj(v) THEN Fail(path, "invalid_type")
    ELSE LET no == Get(v, "notion")
             sl == Get(v, "slack")
         IN ZodObjectResult(
        [notion |-> ZodDefault(Obj([enabled |-> JsFalse]), no,
                        NotionSchema(no, path \o <<"notion">>)),
         slack |-> ZodDefault(Obj([enabled |-> JsFalse]), sl,
                       SlackSchema(sl, path \o <<"slack">>))])

\* ConfigSchema.parse(v): the result of running the schema on v (parse throws
\* a ZodError carrying the issues when ok is FALSE).
ConfigSchema(v) ==
    IF ~IsObj(v) THEN Fail(<<>>, "invalid_type")
    ELSE LET cr == Get(v, "code_review")
             iw == Get(v, "issue_workflow")
             cw == Get(v, "code_workspace")
             int == Get(v, "integrations")
             ip == Get(v, "ignore_patterns")
             lang == Get(v, "language")
         IN ZodObjectResult(
        [code_review |->
             ZodDefault(CodeReviewDefault, cr,
                 ZodOptional(cr, CodeReviewConfigSchema(cr, <<"code_review">>))),
         issue_workflow |->
             ZodDefault(IssueWorkflowDefault, iw,
                 ZodOptional(iw, IssueWorkflowConfigSchema(iw, <<"issue_workflow">>))),
         code_workspace |->
             ZodDefault(CodeWorkspaceDefault, cw,
                 ZodOptional(cw, CodeWorkspaceConfigSchema(cw, <<"code_workspace">>))),
         integrations |->
             ZodDefault(IntegrationsSchemaDefault, int,
                 ZodOptional(int, IntegrationsConfigSchema(int, <<"integrations">>))),
         ignore_patterns |->
             ZodDefault(Arr(<<>>), ip, ZodArrayOfString(ip, <<"ignore_patterns">>)),
         language |-> ZodDefault(Str("ko"), lang, ZodEnum(Language, lang, <<"language">>))])

\* DEFAULT_CONFIG.integrations, as the integration tests read it: both
\* integrations disabled, no ids, no webhook URL.
DEFAULT_CONFIG_integrations ==
    Obj([notion |-> Obj([enabled |-> JsFalse]), slack |-> Obj([enabled |-> JsFalse])])

\* The value of the DEFAULT_CONFIG literal.
DEFAULT_CONFIG ==
    Obj([code_review |->
             Obj([disable |-> JsFalse,
                  comment_severity_threshold |-> Str("MEDIUM"),
                  max_review_comments |-> Num(-1),
                  pull_request_opened |->
                      Obj([help |-> JsFalse, summary |-> JsTrue, code_review |-> JsTrue,
                           include_drafts |-> JsTrue])]),
         issue_workflow |->
             Obj([disable |-> JsFalse,
                  issue_opened |-> Obj([post_dev_help |-> JsTrue]),
                  triage |->
                      Obj([auto |-> JsTrue, manual |-> JsTrue, update_issue_type |-> JsTrue]),
                  investigate |->
                      Obj([enabled |-> JsTrue, org_members_only |-> JsTrue,
                           auto_on_bug_label |-> JsFalse]),
                  fix |->
                      Obj([enabled |-> JsTrue, org_members_only |-> JsTrue,
                           require_investigation |-> JsFalse, auto_create_pr |-> JsTrue,
                           auto_run_tests |-> JsTrue])]),
         code_workspace |-> Obj([enabled |-> JsTrue]),
         integrations |-> DEFAULT_CONFIG_integrations,
         ignore_patterns |-> Arr(<<>>),
         language |-> Str("ko")])

----------------------------------------------------------------------------
(* The validator on partial documents: a document is written field by      *)
(* field and handed to ConfigSchema.parse.                                 *)

VARIABLES raw, edits, validated

vvars == <<raw, edits, validated>>

MaxEdits == 2

\* No call of ConfigSchema.parse on the current document yet.
NotRun == Fail(<<>>, "not run")

\* The leaves of the schema that are booleans with a default.
BoolLeaves ==
    {<<"code_review", "disable">>,
     <<"code_review", "pull_request_opened", "help">>,
     <<"code_review", "pull_request_opened", "summary">>,
     <<"code_review", "pull_request_opened", "code_review">>,
     <<"code_review", "pull_request_opened", "include_drafts">>,
     <<"issue_workflow", "disable">>,
     <<"issue_workflow", "issue_opened", "post_dev_help">>,
     <<"issue_workflow", "triage", "auto">>,
     <<"issue_workflow", "triage", "manual">>,
     <<"issue_workflow", "triage", "update_issue_type">>,
     <<"issue_workflow", "investigate", "enabled">>,
     <<"issue_workflow", "investigate", "org_members_only">>,
     <<"issue_workflow", "investigate", "auto_on_bug_label">>,
     <<"issue_workflow", "fix", "enabled">>,
     <<"issue_workflow", "fix", "org_members_only">>,
     <<"issue_workflow", "fix", "require_investigation">>,
     <<"issue_workflow", "fix", "auto_create_pr">>,
     <<"issue_workflow", "fix", "auto_run_tests">>,
     <<"code_workspace", "enabled">>,
     <<"integrations", "notion", "enabled">>,
     <<"integrations", "slack", "enabled">>}

\* The optional strings of the integrations section: no default.
OptionalLeaves ==
    {<<"integrations", "notion", "page_id">>,
     <<"integrations", "notion", "database_id">>,
     <<"integrations", "slack", "webhook_url">>,
     <<"integrations", "slack", "channel">>}

SeverityPath == <<"code_review", "comment_severity_threshold">>
MaxCommentsPath == <<"code_review", "max_review_comments">>
LanguagePath == <<"language">>
IgnorePatternsPath == <<"ignore_patterns">>

\* The nested objects of the schema.
Sections ==
    {<<"code_review">>, <<"code_review", "pull_request_opened">>,
     <<"issue_workflow">>, <<"issue_workflow", "issue_opened">>,
     <<"issue_workflow", "triage">>, <<"issue_workflow", "investigate">>,
     <<"issue_workflow", "fix">>, <<"code_workspace">>,
     <<"integrations">>, <<"integrations", "notion">>, <<"integrations", "slack">>}

\* Keys the schema does not know, at each depth.
UnknownPaths ==
    {<<"unknown_field">>, <<"code_review", "extra">>,
     <<"issue_workflow", "triage", "extra">>, <<"integrations", "notion", "extra">>}

ReviewCommentCounts == {-5, -2, -1, 0, 10}

\* What a document may say at a path: well-typed values, values outside the
\* enumerations, null.
FieldChoices ==
    (BoolLeaves \X {JsTrue, JsFalse, Null})
    \cup (OptionalLeaves \X {Str("abc123"), Null})
    \cup ({SeverityPath} \X {Str("LOW"), Str("MEDIUM"), Str("HIGH"), Str("medium"), Null})
    \cup ({LanguagePath} \X {Str("ko"), Str("en"), Str("fr"), Str("EN"), Null})
    \cup ({MaxCommentsPath} \X ({Num(n) : n \in ReviewCommentCounts} \cup {Null}))
    \cup ({IgnorePatternsPath} \X {Arr(<<>>), Arr(<<Str("dist/**")>>), Null})
    \cup (Sections \X {EmptyObj, Null})
    \cup (UnknownPaths \X {Str("x")})

\* The value at a path of a (nested) value; undefined when a step is absent.
RECURSIVE At(_, _)
At(v, path) ==
    IF path = <<>> THEN v ELSE At(Get(v, Head(path)), Tail(path))

\* v with the value at path set to x, the objects on the way created.
RECURSIVE Put(_, _, _)
Put(v, path, x) ==
    LET base == IF IsObj(v) THEN v ELSE EmptyObj
    IN IF Len(path) = 1 THEN With(base, path[1], x)
       ELSE With(base, path[1], Put(Get(base, path[1]), Tail(path), x))

----------------------------------------------------------------------------
(* What the specification says of a document and of its fields (section 3  *)
(* of the design): the vocabulary of the validator's claims.               *)

AllLeaves ==
    BoolLeaves \cup OptionalLeaves
        \cup {SeverityPath, MaxCommentsPath, LanguagePath, IgnorePatternsPath}

DefaultedLeaves == AllLeaves \ OptionalLeaves

\* The default the data model documents for a leaf; none for the optional ids.
DocumentedDefault(p) ==
    CASE p \in {<<"code_review", "disable">>,
                <<"code_review", "pull_request_opened", "help">>,
                <<"issue_workflow", "disable">>,
                <<"issue_workflow", "investigate", "auto_on_bug_label">>,
                <<"issue_workflow", "fix", "require_investigation">>,
                <<"integrations", "notion", "enabled">>,
                <<"integrations", "slack", "enabled">>} -> JsFalse
      [] p \in BoolLeaves -> JsTrue
      [] p = SeverityPath -> Str("MEDIUM")
      [] p = MaxCommentsPath -> Num(-1)
      [] p = LanguagePath -> Str("ko")
      [] p = IgnorePatternsPath -> Arr(<<>>)
      [] OTHER -> Undefined

\* A value of the documented type of a leaf.
WellTyped(p, x) ==
    CASE p \in BoolLeaves -> x.k = "boolean"
      [] p \in OptionalLeaves -> x.k = "string"
      [] p = SeverityPath -> x.k = "string" /\ x.s \in {"LOW", "MEDIUM", "HIGH"}
      [] p = LanguagePath -> x.k = "string" /\ x.s \in {"ko", "en"}
      [] p = MaxCommentsPath -> x.k = "number" /\ (x.n = -1 \/ x.n >= 0)
      [] p = IgnorePatternsPath ->
             x.k = "array" /\ \A i \in DOMAIN x.a : x.a[i].k = "string"
      [] OTHER -> FALSE

\* A valid partial document: any subset of the sections and fields, each one
\* present of its documented type; keys the schema does not know are allowed.
ValidPartialDocument(d) ==
    /\ IsObj(d)
    /\ \A p \in Sections : At(d, p) = Undefined \/ IsObj(At(d, p))
    /\ \A p \in AllLeaves : At(d, p) = Undefined \/ WellTyped(p, At(d, p))

\* The keys the schema gives the object at path p (the root is <<>>).
ShapeKeys(p) ==
    {q[Len(p) + 1] : q \in {r \in AllLeaves \cup Sections :
                                Len(r) > Len(p) /\ SubSeq(r, 1, Len(p)) = p}}

\* v without the key at path.
RECURSIVE Remove(_, _)
Remove(v, path) ==
    IF ~Has(v, Head(path)) THEN v
    ELSE IF Len(path) = 1
         THEN Obj([key \in DOMAIN v.o \ {path[1]} |-> v.o[key]])
         ELSE With(v, path[1], Remove(v.o[path[1]], Tail(path)))

HasRun == validated # NotRun


----------------------------------------------------------------------------
(* The heap: the objects a Config is made of. A cell is an object whose    *)
(* slots hold primitive values or references, or an array. Two Configs     *)
(* that hold the same reference share that object.                         *)

Ref(a) == [k |-> "ref", a |-> a]

IsRef(v) == v.k = "ref"

\* The object or array literal v built in heap h: [heap, slot], slot the value
\* to store where the literal is used (a reference, or v itself when v is
\* primitive).
RECURSIVE Containers(_)
Containers(v) ==
    IF IsObj(v)
    THEN {<<>>} \cup UNION {{<<key>> \o p : p \in Containers(v.o[key])} : key \in DOMAIN v.o}
    ELSE IF v.k = "array" THEN {<<>>} ELSE {}

RECURSIVE Enumerate(_)
Enumerate(S) ==
    IF S = {} THEN <<>>
    ELSE LET x == CHOOSE y \in S : TRUE IN <<x>> \o Enumerate(S \ {x})

AllocIn(h, v) ==
    IF Containers(v) = {} THEN [heap |-> h, slot |-> v]
    ELSE LET order == Enumerate(Containers(v))
             addr(p) == Len(h) + (CHOOSE i \in DOMAIN order : order[i] = p)
             cell(p) ==
                 LET c == At(v, p)
                 IN IF IsObj(c)
                    THEN Obj([key \in DOMAIN c.o |->
                                 IF Containers(c.o[key]) = {} THEN c.o[key]
                                 ELSE Ref(addr(Append(p, key)))])
                    ELSE c
         IN [heap |-> h \o [i \in DOMAIN order |-> cell(order[i])],
             slot |-> Ref(addr(<<>>))]

\* The value a slot stands for: what a deep comparison of it reads.
RECURSIVE Deref(_, _)
Deref(h, slot) ==
    IF ~IsRef(slot) THEN slot
    ELSE LET c == h[slot.a]
         IN IF IsObj(c) THEN Obj([key \in DOMAIN c.o |-> Deref(h, c.o[key])]) ELSE c

\* The cells reachable from a slot.
RECURSIVE Reach(_, _)
Reach(h, slot) ==
    IF ~IsRef(slot) THEN {}
    ELSE LET c == h[slot.a]
         IN {slot.a} \cup
            (IF IsObj(c) THEN UNION {Reach(h, c.o[key]) : key \in DOMAIN c.o} ELSE {})

\* The slot at a path from a slot; undefined when a step is absent.
RECURSIVE SlotAt(_, _, _)
SlotAt(h, slot, path) ==
    IF path = <<>> THEN slot
    ELSE IF IsRef(slot) /\ IsObj(h[slot.a])
         THEN SlotAt(h, Get(h[slot.a], Head(path)), Tail(path))
         ELSE Undefined

\* slot.path[1]. ... .path[n] = x : the assignment writes the cell that holds
\* the last key (the path to it exists).
HeapAssign(h, slot, path, x) ==
    LET owner == SlotAt(h, slot, SubSeq(path, 1, Len(path) - 1))
    IN [h EXCEPT ![owner.a] = With(h[owner.a], path[Len(path)], x)]

\* Evaluating the DEFAULT_CONFIG literal at module load builds its objects.
DefaultHeap == AllocIn(<<>>, DEFAULT_CONFIG)

\* What the binding DEFAULT_CONFIG holds: the reference to the root object.
DefaultRef == DefaultHeap.slot

----------------------------------------------------------------------------
(* js-yaml. A text is a sequence of lines "key: scalar" at an indentation; *)
(* a line with no scalar opens the nested mapping of the deeper lines that *)
(* follow it (or is null when none follows), a line with key "#" is a      *)
(* comment, and a line with key "" is a bare scalar.                       *)

Line(indent, key, scalar) == [indent |-> indent, key |-> key, scalar |-> scalar]

Returned(v) == [threw |-> FALSE, value |-> v]
Threw(e) == [threw |-> TRUE, value |-> e]

\* An Error instance, of whatever class (error instanceof Error).
JsError(name, message) == [k |-> "error", name |-> name, message |-> message]

IsError(v) == v.k = "error"

YAMLException(reason) == JsError("YAMLException", reason)

\* The integers the scalars of a text can spell.
YamlNumbers == -10 .. 10

\* The value of a plain scalar under the default schema.
YamlResolve(s) ==
    IF s \in {"", "~", "null", "Null", "NULL"} THEN Null
    ELSE IF s \in {"true", "True", "TRUE"} THEN JsTrue
    ELSE IF s \in {"false", "False", "FALSE"} THEN JsFalse
    ELSE IF s = "[]" THEN Arr(<<>>)
    ELSE IF s = "{}" THEN EmptyObj
    ELSE IF \E n \in YamlNumbers : ToString(n) = s
         THEN Num(CHOOSE n \in YamlNumbers : ToString(n) = s)
    ELSE Str(s)

\* The lines of a block that hold its keys: those at the indentation of its
\* first line.
YamlHeads(lines) == {i \in DOMAIN lines : lines[i].indent = lines[1].indent}

\* The lines nested under the key at line i: those up to the next key.
YamlChildren(lines, i) ==
    LET later == {j \in YamlHeads(lines) : j > i}
        next == IF later = {} THEN Len(lines) + 1
                ELSE CHOOSE j \in later : \A m \in later : j <= m
    IN SubSeq(lines, i + 1, next - 1)

\* The block of lines at the indentation of its first line, and the value of
\* the key at line i of a block.
RECURSIVE YamlBlock(_)
RECURSIVE YamlEntry(_, _)
YamlEntry(lines, i) ==
    IF YamlChildren(lines, i) = <<>> THEN Returned(YamlResolve(lines[i].scalar))
    ELSE IF lines[i].scalar # ""
         THEN Threw(YAMLException("bad indentation of a mapping entry"))
         ELSE YamlBlock(YamlChildren(lines, i))

YamlBlock(lines) ==
    LET heads == YamlHeads(lines)
        entries == [i \in heads |-> YamlEntry(lines, i)]
    IN IF \E i \in DOMAIN lines : lines[i].indent < lines[1].indent
       THEN Threw(YAMLException("bad indentation of a mapping entry"))
       ELSE IF \E i \in heads : lines[i].key = ""
       THEN IF Len(lines) = 1 THEN Returned(YamlResolve(lines[1].scalar))
            ELSE Threw(YAMLException("end of the stream or a document separator is expected"))
       ELSE IF \E i, j \in heads : i < j /\ lines[i].key = lines[j].key
       THEN Threw(YAMLException("duplicated mapping key"))
       ELSE IF \E i \in heads : entries[i].threw
       THEN entries[CHOOSE i \in heads :
                        entries[i].threw /\ \A j \in heads : entries[j].threw => i <= j]
       ELSE Returned(Obj([key \in {lines[i].key : i \in heads} |->
                             entries[CHOOSE i \in heads : lines[i].key = key].value]))

\* yaml.load(text): the document, undefined for a text that holds none, or a
\* YAMLException.
YamlLoad(text) ==
    LET body == SelectSeq(text, LAMBDA l : l.key # "#")
    IN IF body = <<>> THEN Returned(Undefined) ELSE YamlBlock(body)

\* yaml.dump writing booleans the YAML 1.1 way, which yaml.load reads back as
\* strings.
YamlDumpScalar_Yaml11(v) ==
    CASE v.k = "boolean" -> IF v.b THEN "yes" ELSE "no"
      [] v.k = "number" -> ToString(v.n)
      [] v.k = "string" -> v.s
      [] v.k = "null" -> "null"
      [] v = Arr(<<>>) -> "[]"
      [] v = EmptyObj -> "{}"

\* yaml.dump of a scalar in plain style. The strings of a generated Config
\* (ko, en, MEDIUM) need no quoting.
YamlDumpScalar(v) ==
    CASE v.k = "boolean" -> IF v.b THEN "true" ELSE "false"
      [] v.k = "number" -> ToString(v.n)
      [] v.k = "string" -> v.s
      [] v.k = "null" -> "null"
      [] v = Arr(<<>>) -> "[]"
      [] v = EmptyObj -> "{}"

\* yaml.dump(v, { indent: 2 }) of a mapping: one line per key, the lines of a
\* nested mapping under its key, two columns further in.
RECURSIVE YamlDumpKeys(_, _, _)
YamlDumpKeys(v, keys, indent) ==
    IF keys = <<>> THEN <<>>
    ELSE LET key == Head(keys)
             x == v.o[key]
             entry == IF IsObj(x) /\ x # EmptyObj
                      THEN <<Line(indent, key, "")>>
                               \o YamlDumpKeys(x, Enumerate(DOMAIN x.o), indent + 2)
                      ELSE <<Line(indent, key, YamlDumpScalar(x))>>
         IN entry \o YamlDumpKeys(v, Tail(keys), indent)

YamlDump(v) == YamlDumpKeys(v, Enumerate(DOMAIN v.o), 0)

----------------------------------------------------------------------------
(* loader.ts and generator.ts: what the functions compute.                 *)

\* path.join(repoPath, '.please', 'config.yml')
ConfigPath(repoPath) == <<repoPath, ".please", "config.yml">>

\* The ZodError ConfigSchema.parse throws: an Error whose message is the
\* issues, each with its path.
ZodError(issues) == JsError("ZodError", issues)

TypeError(message) == JsError("TypeError", message)

\* ConfigSchema.parse(rawConfig ?? {}): no document validated as {}.
SchemaParse_EmptyWhenUndefined(rawConfig) ==
    LET r == ConfigSchema(IF rawConfig = Undefined THEN EmptyObj ELSE rawConfig)
    IN IF r.ok THEN Returned(r.value) ELSE Threw(ZodError(r.issues))

\* ConfigSchema.parse(rawConfig): the validated value, or a ZodError thrown.
SchemaParse(rawConfig) ==
    LET r == ConfigSchema(rawConfig)
    IN IF r.ok THEN Returned(r.value) ELSE Threw(ZodError(r.issues))

\* What the catch block of loadConfig throws for a caught value.
LoadConfigCatch(error, configPath) ==
    IF IsError(error)
    THEN JsError("Error", <<"Failed to load config from ", configPath, ": ", error.message>>)
    ELSE error

\* v.key for any value that is not null or undefined.
Prop(v, key) ==
    IF IsObj(v) THEN Get(v, key)
    ELSE IF IsError(v) /\ key \in DOMAIN v THEN v[key]
    ELSE Undefined

Nullish(v) == v \in {Undefined, Null}

Truthy(v) == v \notin {Undefined, Null, JsFalse, Num(0), Str("")}

\* The content of a file as the remote sends it, and its decoding. A string
\* that is not the encoding of a text decodes to bytes that spell no mapping.
Base64Encode(text) == [k |-> "string", base64 |-> text]

Base64Decode(content) ==
    IF "base64" \in DOMAIN content THEN content.base64
    ELSE <<Line(0, "", "?")>>

\* The try block of loadConfigFromGitHub once the request has settled: the
\* value returned (DEFAULT_CONFIG's reference, or a validated value), or the
\* value thrown.
GitHubTry(settled) ==
    IF settled.state = "rejected" THEN Threw(settled.value)
    ELSE LET response == settled.value
             data == Prop(response, "data")
             content == Prop(data, "content")
         IN IF Nullish(response)
            THEN Threw(TypeError("Cannot destructure property 'data'"))
            ELSE IF ~(IsObj(data) \/ data.k = "array")
            THEN Threw(TypeError("Cannot use 'in' operator to search for 'content'"))
            ELSE IF ~(Has(data, "content") /\ Truthy(content))
            THEN Returned(DefaultRef)
            ELSE IF content.k # "string"
            THEN Threw(TypeError("The first argument must be of type string"))
            ELSE LET loaded == YamlLoad(Base64Decode(content))
                 IN IF loaded.threw THEN loaded ELSE SchemaParse(loaded.value)

\* The catch block of loadConfigFromGitHub for a caught value: what it
\* returns or throws, and whether it logs.
GitHubCatch(error) ==
    IF Nullish(error)
    THEN [threw |-> TRUE, logged |-> FALSE,
          value |-> TypeError("Cannot read properties of undefined (reading 'status')")]
    ELSE IF Prop(error, "status") = Num(404)
         THEN [threw |-> FALSE, logged |-> FALSE, value |-> DefaultRef]
         ELSE [threw |-> FALSE, logged |-> TRUE, value |-> DefaultRef]

\* generateConfig with disable computed as !options.enableX: an absent option
\* disables the section.
GenerateConfig_Negated(h, options) ==
    LET def == h[DefaultRef.a]
        code_review ==
            With(h[def.o["code_review"].a], "disable",
                 Bool(~Truthy(Get(options, "enableCodeReview"))))
        issue_workflow ==
            With(h[def.o["issue_workflow"].a], "disable",
                 Bool(~Truthy(Get(options, "enableIssueWorkflow"))))
        language ==
            IF Nullish(Get(options, "language")) THEN def.o["language"]
            ELSE Get(options, "language")
        root ==
            With(With(With(def, "language", language),
                      "code_review", Ref(Len(h) + 1)),
                 "issue_workflow", Ref(Len(h) + 2))
    IN [heap |-> h \o <<code_review, issue_workflow, root>>, slot |-> Ref(Len(h) + 3)]

\* generateConfig(options) in heap h: three new objects, the rest shared
\* with DEFAULT_CONFIG by the spreads.
GenerateConfig(h, options) ==
    LET def == h[DefaultRef.a]
        code_review ==
            With(h[def.o["code_review"].a], "disable",
                 Bool(Get(options, "enableCodeReview") = JsFalse))
        issue_workflow ==
            With(h[def.o["issue_workflow"].a], "disable",
                 Bool(Get(options, "enableIssueWorkflow") = JsFalse))
        language ==
            IF Nullish(Get(options, "language")) THEN def.o["language"]
            ELSE Get(options, "language")
        root ==
            With(With(With(def, "language", language),
                      "code_review", Ref(Len(h) + 1)),
                 "issue_workflow", Ref(Len(h) + 2))
    IN [heap |-> h \o <<code_review, issue_workflow, root>>, slot |-> Ref(Len(h) + 3)]

----------------------------------------------------------------------------
(* The predicate helpers of loader.ts and generator.ts. A helper is given  *)
(* any value typed Config, a loosely typed one included, and returns a     *)
(* value or throws the TypeError of a property read on undefined or null.  *)

\* config.a.b.c : every step a plain property read.
RECURSIVE Read(_, _)
Read(v, path) ==
    IF path = <<>> THEN Returned(v)
    ELSE IF Nullish(v)
         THEN Threw(TypeError(<<"Cannot read properties of undefined, reading", Head(path)>>))
         ELSE Read(Prop(v, Head(path)), Tail(path))

\* v?.a?.b : undefined as soon as a step is read on undefined or null.
RECURSIVE ReadOptional(_, _)
ReadOptional(v, path) ==
    IF path = <<>> THEN v
    ELSE IF Nullish(v) THEN Undefined
         ELSE ReadOptional(Prop(v, Head(path)), Tail(path))

\* config.section?.a?.b : the section is a plain read of config.
OptionalChain(config, path) ==
    LET section == Read(config, <<Head(path)>>)
    IN IF section.threw THEN section
       ELSE Returned(ReadOptional(section.value, Tail(path)))

\* config.section?.a?.b ?? fallback
OrElse(config, path, fallback) ==
    LET v == OptionalChain(config, path)
    IN IF v.threw THEN v
       ELSE Returned(IF Nullish(v.value) THEN fallback ELSE v.value)

\* !config.section.disable && config.a.b.c
UnlessDisabled(config, section, path) ==
    LET disable == Read(config, <<section, "disable">>)
    IN IF disable.threw THEN disable
       ELSE IF Truthy(disable.value) THEN Returned(JsFalse)
       ELSE Read(config, path)

isCodeReviewDisabled(config) == Read(config, <<"code_review", "disable">>)

getLanguage(config) == Read(config, <<"language">>)

\* shouldReviewPR without the draft check.
shouldReviewPR_DraftsReviewed(config, isDraft) ==
    LET disabled == isCodeReviewDisabled(config)
    IN IF disabled.threw THEN disabled
       ELSE IF Truthy(disabled.value) THEN Returned(JsFalse)
       ELSE Read(config, <<"code_review", "pull_request_opened", "code_review">>)

shouldReviewPR(config, isDraft) ==
    LET disabled == isCodeReviewDisabled(config)
        prConfig == Read(config, <<"code_review", "pull_request_opened">>)
        include_drafts == Read(prConfig.value, <<"include_drafts">>)
    IN IF disabled.threw THEN disabled
       ELSE IF Truthy(disabled.value) THEN Returned(JsFalse)
       ELSE IF isDraft /\ include_drafts.threw THEN include_drafts
       ELSE IF isDraft /\ ~Truthy(include_drafts.value) THEN Returned(JsFalse)
       ELSE Read(prConfig.value, <<"code_review">>)

\* shouldShowHelp consulting code_review.disable.
shouldShowHelp_Gated(config) ==
    UnlessDisabled(config, "code_review", <<"code_review", "pull_request_opened", "help">>)

shouldShowHelp(config) == Read(config, <<"code_review", "pull_request_opened", "help">>)

shouldShowSummary(config) == Read(config, <<"code_review", "pull_request_opened", "summary">>)

isAutoTriageEnabled(config) ==
    UnlessDisabled(config, "issue_workflow", <<"issue_workflow", "triage", "auto">>)

isManualTriageEnabled(config) ==
    UnlessDisabled(config, "issue_workflow", <<"issue_workflow", "triage", "manual">>)

shouldUpdateIssueType(config) ==
    Read(config, <<"issue_workflow", "triage", "update_issue_type">>)

isInvestigateEnabled(config) ==
    UnlessDisabled(config, "issue_workflow", <<"issue_workflow", "investigate", "enabled">>)

investigateRequiresOrgMembership(config) ==
    Read(config, <<"issue_workflow", "investigate", "org_members_only">>)

shouldAutoInvestigateOnBugLabel(config) ==
    LET enabled == isInvestigateEnabled(config)
    IN IF enabled.threw \/ ~Truthy(enabled.value) THEN enabled
       ELSE Read(config, <<"issue_workflow", "investigate", "auto_on_bug_label">>)

\* isFixEnabled reading only the sub-feature's flag.
isFixEnabled_Ungated(config) == Read(config, <<"issue_workflow", "fix", "enabled">>)

isFixEnabled(config) ==
    UnlessDisabled(config, "issue_workflow", <<"issue_workflow", "fix", "enabled">>)

fixRequiresOrgMembership(config) ==
    Read(config, <<"issue_workflow", "fix", "org_members_only">>)

fixRequiresInvestigation(config) ==
    Read(config, <<"issue_workflow", "fix", "require_investigation">>)

shouldAutoCreatePR(config) == Read(config, <<"issue_workflow", "fix", "auto_create_pr">>)

shouldAutoRunTests(config) == Read(config, <<"issue_workflow", "fix", "auto_run_tests">>)

\* isCodeWorkspaceEnabled falling back to the schema's default.
isCodeWorkspaceEnabled_SchemaFallback(config) ==
    OrElse(config, <<"code_workspace", "enabled">>, JsTrue)

isCodeWorkspaceEnabled(config) == OrElse(config, <<"code_workspace", "enabled">>, JsFalse)

isDevHelpEnabled(config) ==
    OrElse(config, <<"issue_workflow", "issue_opened", "post_dev_help">>, JsTrue)

isAutoReviewEnabled(config) ==
    OrElse(config, <<"code_review", "pull_request_opened", "code_review">>, JsTrue)

isNotionEnabled(config) == OrElse(config, <<"integrations", "notion", "enabled">>, JsFalse)

getNotionPageId(config) == OptionalChain(config, <<"integrations", "notion", "page_id">>)

getNotionDatabaseId(config) ==
    OptionalChain(config, <<"integrations", "notion", "database_id">>)

\* isSlackEnabled reading the section without optional chaining.
isSlackEnabled_Strict(config) ==
    LET enabled == Read(config, <<"integrations", "slack", "enabled">>)
    IN IF enabled.threw THEN enabled
       ELSE Returned(IF Nullish(enabled.value) THEN JsFalse ELSE enabled.value)

isSlackEnabled(config) == OrElse(config, <<"integrations", "slack", "enabled">>, JsFalse)

getSlackWebhookUrl(config) ==
    OptionalChain(config, <<"integrations", "slack", "webhook_url">>)

\* What every helper answers for a config and a draft flag.
Answers(config, isDraft) ==
    [isCodeReviewDisabled |-> isCodeReviewDisabled(config),
     getLanguage |-> getLanguage(config),
     shouldReviewPR |-> shouldReviewPR(config, isDraft),
     shouldShowHelp |-> shouldShowHelp(config),
     shouldShowSummary |-> shouldShowSummary(config),
     isAutoTriageEnabled |-> isAutoTriageEnabled(config),
     isManualTriageEnabled |-> isManualTriageEnabled(config),
     shouldUpdateIssueType |-> shouldUpdateIssueType(config),
     isInvestigateEnabled |-> isInvestigateEnabled(config),
     investigateRequiresOrgMembership |-> investigateRequiresOrgMembership(config),
     shouldAutoInvestigateOnBugLabel |-> shouldAutoInvestigateOnBugLabel(config),
     isFixEnabled |-> isFixEnabled(config),
     fixRequiresOrgMembership |-> fixRequiresOrgMembership(config),
     fixRequiresInvestigation |-> fixRequiresInvestigation(config),
     shouldAutoCreatePR |-> shouldAutoCreatePR(config),
     shouldAutoRunTests |-> shouldAutoRunTests(config),
     isCodeWorkspaceEnabled |-> isCodeWorkspaceEnabled(config),
     isDevHelpEnabled |-> isDevHelpEnabled(config),
     isAutoReviewEnabled |-> isAutoReviewEnabled(config),
     isNotionEnabled |-> isNotionEnabled(config),
     getNotionPageId |-> getNotionPageId(config),
     getNotionDatabaseId |-> getNotionDatabaseId(config),
     isSlackEnabled |-> isSlackEnabled(config),
     getSlackWebhookUrl |-> getSlackWebhookUrl(config)]

----------------------------------------------------------------------------
(* The process: the file system it reads, its heap, the loadConfig and     *)
(* loadConfigFromGitHub calls in progress, console.error's output and the  *)
(* Configs handed to callers.                                              *)

VARIABLES fs, heap, lc, gh, log, results, calls, mutations, asked, gen

lvars == <<fs, heap, lc, gh, log, results, calls, mutations, asked, gen>>

vars ==
    <<raw, edits, validated, fs, heap, lc, gh, log, results, calls, mutations, asked, gen>>

MaxCalls == 2

MaxMutations == 2

\* The repository roots, one per kind of config file.
RepoPaths == {"/absent", "/empty", "/comments", "/malformed", "/valid", "/fr", "/nullsection"}

NoFile == [exists |-> FALSE, text |-> <<>>]

File(text) == [exists |-> TRUE, text |-> text]

ValidText ==
    <<Line(0, "language", "en"), Line(0, "code_review", ""),
      Line(2, "max_review_comments", "10")>>

FileAt(repoPath) ==
    CASE repoPath = "/absent" -> NoFile
      [] repoPath = "/empty" -> File(<<>>)
      [] repoPath = "/comments" -> File(<<Line(0, "#", "PleaseAI configuration")>>)
      [] repoPath = "/malformed" ->
             File(<<Line(2, "language", "en"), Line(0, "code_review", "")>>)
      [] repoPath = "/valid" -> File(ValidText)
      [] repoPath = "/fr" -> File(<<Line(0, "language", "fr")>>)
      [] repoPath = "/nullsection" -> File(<<Line(0, "code_review", "")>>)

InitialFS == [p \in {ConfigPath(r) : r \in RepoPaths} |-> FileAt(p[1])]

Pending == [status |-> "pending", value |-> Undefined]
Resolved(slot) == [status |-> "resolved", value |-> slot]
Rejected(error) == [status |-> "rejected", value |-> error]

LcIdle ==
    [pc |-> "idle", repoPath |-> "", configPath |-> <<>>, fileContents |-> <<>>,
     rawConfig |-> Undefined, steps |-> <<>>, out |-> Pending]

GhIdle == [pc |-> "idle", settled |-> Undefined, out |-> Pending]

\* What the remote content source can answer to repos.getContent.
Fulfilled(response) == [state |-> "fulfilled", value |-> response]
RejectedWith(reason) == [state |-> "rejected", value |-> reason]

FileResponse(content) ==
    Obj([data |-> Obj([type |-> Str("file"), content |-> content])])

HttpError(status) ==
    [k |-> "error", name |-> "HttpError", message |-> "request failed", status |-> Num(status)]

RemoteOutcomes ==
    {Fulfilled(FileResponse(Base64Encode(ValidText))),
     Fulfilled(FileResponse(Base64Encode(<<Line(0, "language", "fr")>>))),
     Fulfilled(FileResponse(Base64Encode(<<Line(2, "language", "en"), Line(0, "x", "")>>))),
     Fulfilled(FileResponse(Base64Encode(<<Line(0, "#", "PleaseAI configuration")>>))),
     Fulfilled(FileResponse(Str("%%%"))),
     Fulfilled(FileResponse(Str(""))),
     Fulfilled(FileResponse(Num(7))),
     Fulfilled(Obj([data |-> Arr(<<>>)])),
     Fulfilled(Obj([data |-> Obj([type |-> Str("submodule")])])),
     Fulfilled(EmptyObj),
     Fulfilled(Undefined),
     RejectedWith(HttpError(404)),
     RejectedWith(HttpError(500)),
     RejectedWith(HttpError(401)),
     RejectedWith(JsError("Error", "getaddrinfo ENOTFOUND api.github.com")),
     RejectedWith(Obj([status |-> Num(404)])),
     RejectedWith(Obj([status |-> Str("404")])),
     RejectedWith(Str("timeout")),
     RejectedWith(Null),
     RejectedWith(Undefined)}

\* The options generateConfig is called with.
GenerateOptions ==
    {Obj(o) : o \in UNION {[keys -> {JsTrue, JsFalse}] :
                              keys \in SUBSET {"enableCodeReview", "enableIssueWorkflow"}}}
    \cup {Obj([language |-> Str(l)]) : l \in Language}
    \cup {Obj([language |-> Str("en"), enableCodeReview |-> JsFalse,
               enableIssueWorkflow |-> JsFalse])}

\* No helper called yet.
NotAsked == [on |-> "none", config |-> Undefined, isDraft |-> FALSE, answers |-> <<>>]

\* No generateConfigYAML call yet.
GenIdle == [pc |-> "idle", options |-> Undefined, text |-> <<>>, back |-> Returned(Undefined)]

\* The options records of generateConfig: each of the three options absent
\* or set, a null language, a field the interface does not have, and no
\* argument at all.
Absent == {[key \in {} |-> Undefined]}

OptionsRecords ==
    {Obj(l @@ cr @@ iw) :
        l \in Absent \cup {[language |-> Str(x)] : x \in Language},
        cr \in Absent \cup {[enableCodeReview |-> b] : b \in {JsTrue, JsFalse}},
        iw \in Absent \cup {[enableIssueWorkflow |-> b] : b \in {JsTrue, JsFalse}}}

LooseOptions ==
    {Obj([language |-> Null, enableCodeReview |-> JsFalse]),
     Obj([enableCodeReview |-> Null, enableIssueWorkflow |-> Num(0)]),
     Obj([disable |-> JsTrue, code_review |-> Obj([disable |-> JsTrue])]),
     Undefined}

\* The texts another process may put in the config file.
RaceTexts == {ValidText, <<Line(2, "language", "en"), Line(0, "code_review", "")>>}

\* The leaves a caller may assign in a Config it holds.
MutablePaths == BoolLeaves \cup {LanguagePath}

\* Synchronous code runs to completion: nothing of this process runs between
\* two steps of loadConfig.
LcQuiet == lc.pc \in {"idle", "done"}

Result(op, arg, slot, h) ==
    [op |-> op, arg |-> arg, slot |-> slot, atReturn |-> Deref(h, slot)]

\* loadConfig without the early return for an absent file.
LC_PathCheck_NoEarlyReturn(repoPath) ==
    /\ LcQuiet
    /\ calls < MaxCalls
    /\ calls' = calls + 1
    /\ lc' = [LcIdle EXCEPT !.repoPath = repoPath, !.configPath = ConfigPath(repoPath),
                            !.steps = <<"path-check">>, !.pc = "present"]
    /\ UNCHANGED <<fs, heap, gh, log, results, mutations, raw, edits, validated,
                 asked, gen>>

\* existsSync(configPath)
LC_PathCheck(repoPath) ==
    /\ LcQuiet
    /\ calls < MaxCalls
    /\ calls' = calls + 1
    /\ LET configPath == ConfigPath(repoPath)
           call == [LcIdle EXCEPT !.repoPath = repoPath, !.configPath = configPath,
                                  !.steps = <<"path-check">>]
       IN IF ~fs[configPath].exists
          THEN /\ lc' = [call EXCEPT !.pc = "done", !.out = Resolved(DefaultRef)]
               /\ results' = Append(results, Result("loadConfig", repoPath, DefaultRef, heap))
          ELSE /\ lc' = [call EXCEPT !.pc = "present"]
               /\ UNCHANGED results
    /\ UNCHANGED <<fs, heap, gh, log, mutations, raw, edits, validated,
                 asked, gen>>

\* loadConfig returning DEFAULT_CONFIG when the file is gone at the read.
LC_Read_DefaultsWhenGone ==
    /\ lc.pc = "present"
    /\ LET file == fs[lc.configPath]
           call == [lc EXCEPT !.steps = Append(@, "read")]
       IN IF ~file.exists
          THEN /\ lc' = [call EXCEPT !.pc = "done", !.out = Resolved(DefaultRef)]
               /\ results' = Append(results, Result("loadConfig", lc.repoPath, DefaultRef, heap))
          ELSE /\ lc' = [call EXCEPT !.pc = "read", !.fileContents = file.text]
               /\ UNCHANGED results
    /\ UNCHANGED <<fs, heap, gh, log, calls, mutations, raw, edits, validated,
                 asked, gen>>

\* readFileSync(configPath, 'utf8')
LC_Read ==
    /\ lc.pc = "present"
    /\ LET file == fs[lc.configPath]
           read == IF file.exists THEN Returned(file.text)
                   ELSE Threw(JsError("Error", "ENOENT: no such file or directory"))
           call == [lc EXCEPT !.steps = Append(@, "read")]
       IN IF read.threw
          THEN lc' = [call EXCEPT !.pc = "done",
                         !.out = Rejected(LoadConfigCatch(read.value, lc.configPath))]
          ELSE lc' = [call EXCEPT !.pc = "read", !.fileContents = read.value]
    /\ UNCHANGED <<fs, heap, gh, log, results, calls, mutations, raw, edits, validated,
                 asked, gen>>

\* loadConfig going on to validation when yaml.load has thrown.
LC_Parse_Lenient ==
    /\ lc.pc = "read"
    /\ LET loaded == YamlLoad(lc.fileContents)
           call == [lc EXCEPT !.steps = Append(@, "parse")]
       IN lc' = [call EXCEPT !.pc = "parsed",
                             !.rawConfig = IF loaded.threw THEN Undefined ELSE loaded.value]
    /\ UNCHANGED <<fs, heap, gh, log, results, calls, mutations, raw, edits, validated,
                 asked, gen>>

\* yaml.load(fileContents)
LC_Parse ==
    /\ lc.pc = "read"
    /\ LET loaded == YamlLoad(lc.fileContents)
           call == [lc EXCEPT !.steps = Append(@, "parse")]
       IN IF loaded.threw
          THEN lc' = [call EXCEPT !.pc = "done",
                         !.out = Rejected(LoadConfigCatch(loaded.value, lc.configPath))]
          ELSE lc' = [call EXCEPT !.pc = "parsed", !.rawConfig = loaded.value]
    /\ UNCHANGED <<fs, heap, gh, log, results, calls, mutations, raw, edits, validated,
                 asked, gen>>

\* loadConfig falling back to DEFAULT_CONFIG when validation fails.
LC_Validate_FallsBack ==
    /\ lc.pc = "parsed"
    /\ LET parsed == SchemaParse(lc.rawConfig)
           call == [lc EXCEPT !.steps = Append(@, "validate"), !.pc = "done"]
           made == IF parsed.threw THEN [heap |-> heap, slot |-> DefaultRef]
                   ELSE AllocIn(heap, parsed.value)
       IN /\ lc' = [call EXCEPT !.out = Resolved(made.slot)]
          /\ heap' = made.heap
          /\ results' = Append(results, Result("loadConfig", lc.repoPath, made.slot, made.heap))
    /\ UNCHANGED <<fs, gh, log, calls, mutations, raw, edits, validated,
                 asked, gen>>

\* ConfigSchema.parse(rawConfig) and the return
LC_Validate ==
    /\ lc.pc = "parsed"
    /\ LET parsed == SchemaParse(lc.rawConfig)
           call == [lc EXCEPT !.steps = Append(@, "validate"), !.pc = "done"]
           made == AllocIn(heap, parsed.value)
       IN IF parsed.threw
          THEN /\ lc' = [call EXCEPT
                             !.out = Rejected(LoadConfigCatch(parsed.value, lc.configPath))]
               /\ UNCHANGED <<heap, results>>
          ELSE /\ lc' = [call EXCEPT !.out = Resolved(made.slot)]
               /\ heap' = made.heap
               /\ results' =
                      Append(results, Result("loadConfig", lc.repoPath, made.slot, made.heap))
    /\ UNCHANGED <<fs, gh, log, calls, mutations, raw, edits, validated,
                 asked, gen>>

\* loadConfigFromGitHub up to its await of octokit.repos.getContent
GH_Request ==
    /\ LcQuiet
    /\ gh.pc \in {"idle", "done"}
    /\ calls < MaxCalls
    /\ calls' = calls + 1
    /\ gh' = [GhIdle EXCEPT !.pc = "pending"]
    /\ UNCHANGED <<fs, heap, lc, log, results, mutations, raw, edits, validated,
                 asked, gen>>

\* The request settles and loadConfigFromGitHub runs to its end.
GH_Settle(settled) ==
    /\ LcQuiet
    /\ gh.pc = "pending"
    /\ LET try == GitHubTry(settled)
           end == IF try.threw THEN GitHubCatch(try.value)
                  ELSE [threw |-> FALSE, logged |-> FALSE, value |-> try.value]
           made == IF IsRef(end.value) THEN [heap |-> heap, slot |-> end.value]
                   ELSE AllocIn(heap, end.value)
       IN /\ log' = IF end.logged
                    THEN Append(log, <<"Error loading config from GitHub:", try.value>>)
                    ELSE log
          /\ IF end.threw
             THEN /\ gh' = [pc |-> "done", settled |-> settled, out |-> Rejected(end.value)]
                  /\ UNCHANGED <<heap, results>>
             ELSE /\ gh' = [pc |-> "done", settled |-> settled, out |-> Resolved(made.slot)]
                  /\ heap' = made.heap
                  /\ results' =
                         Append(results,
                                Result("loadConfigFromGitHub", settled, made.slot, made.heap))
    /\ UNCHANGED <<fs, lc, calls, mutations, raw, edits, validated,
                 asked, gen>>

\* generateConfig(options)
Generate(options) ==
    /\ LcQuiet
    /\ calls < MaxCalls
    /\ calls' = calls + 1
    /\ LET made == GenerateConfig(heap, options)
       IN /\ heap' = made.heap
          /\ results' = Append(results, Result("generateConfig", options, made.slot, made.heap))
    /\ UNCHANGED <<fs, lc, gh, log, mutations, raw, edits, validated,
                 asked, gen>>

\* A caller assigns a leaf of a Config it was handed: config.a.b = x.
Mutate(i, path) ==
    /\ LcQuiet
    /\ mutations < MaxMutations
    /\ LET old == SlotAt(heap, results[i].slot, path)
       IN /\ old.k \in {"boolean", "string"}
          /\ heap' = HeapAssign(heap, results[i].slot, path,
                         IF old.k = "boolean" THEN Bool(~old.b)
                         ELSE IF old = Str("ko") THEN Str("en") ELSE Str("ko"))
    /\ mutations' = mutations + 1
    /\ UNCHANGED <<fs, lc, gh, log, results, calls, raw, edits, validated,
                 asked, gen>>

\* generateConfigYAML(options): generateConfig, then yaml.dump. The Config it
\* builds is local to the call.
GenerateConfigYAML(options) ==
    /\ LcQuiet
    /\ calls < MaxCalls
    /\ calls' = calls + 1
    /\ LET made == GenerateConfig(heap, options)
       IN gen' = [pc |-> "dumped", options |-> options,
                  text |-> YamlDump(Deref(made.heap, made.slot)),
                  back |-> Returned(Undefined)]
    /\ UNCHANGED <<fs, heap, lc, gh, log, results, mutations, asked, raw, edits, validated>>

\* The generated text read back: yaml.load, then ConfigSchema.parse.
Reparse ==
    /\ gen.pc = "dumped"
    /\ LET loaded == YamlLoad(gen.text)
       IN gen' = [gen EXCEPT !.pc = "reparsed",
                             !.back = IF loaded.threw THEN loaded
                                      ELSE SchemaParse(loaded.value)]
    /\ UNCHANGED <<fs, heap, lc, gh, log, results, calls, mutations, asked, raw, edits,
                   validated>>

\* The helpers called with the validated Config of the document.
AskConfig(isDraft) ==
    /\ validated.ok
    /\ asked' = [on |-> "config", config |-> validated.value, isDraft |-> isDraft,
                 answers |-> Answers(validated.value, isDraft)]
    /\ UNCHANGED <<fs, heap, lc, gh, log, results, calls, mutations, gen, raw, edits,
                   validated>>

\* The helpers called with the document itself, typed any.
AskInput(isDraft) ==
    /\ validated = NotRun
    /\ asked' = [on |-> "input", config |-> raw, isDraft |-> isDraft,
                 answers |-> Answers(raw, isDraft)]
    /\ UNCHANGED <<fs, heap, lc, gh, log, results, calls, mutations, gen, raw, edits,
                   validated>>

\* The helpers called with DEFAULT_CONFIG.
AskDefault(isDraft) ==
    /\ LET config == Deref(heap, DefaultRef)
       IN asked' = [on |-> "default", config |-> config, isDraft |-> isDraft,
                    answers |-> Answers(config, isDraft)]
    /\ UNCHANGED <<fs, heap, lc, gh, log, results, calls, mutations, gen, raw, edits,
                   validated>>

\* Another process creates or rewrites the config file of a repository.
EnvCreate(repoPath, text) ==
    /\ fs[ConfigPath(repoPath)] # File(text)
    /\ fs' = [fs EXCEPT ![ConfigPath(repoPath)] = File(text)]
    /\ UNCHANGED <<heap, lc, gh, log, results, calls, mutations, asked, gen, raw, edits,
                   validated>>

\* Another process deletes the config file of a repository.
EnvDelete(repoPath) ==
    /\ fs[ConfigPath(repoPath)].exists
    /\ fs' = [fs EXCEPT ![ConfigPath(repoPath)] = NoFile]
    /\ UNCHANGED <<heap, lc, gh, log, results, calls, mutations, asked, gen, raw, edits,
                   validated>>

\* The author of the document sets one field.
SetField(path, x) ==
    /\ edits < MaxEdits
    /\ raw' = Put(raw, path, x)
    /\ edits' = edits + 1
    /\ validated' = NotRun
    /\ UNCHANGED lvars

\* ConfigSchema.parse(raw)
Validate ==
    /\ validated = NotRun
    /\ validated' = ConfigSchema(raw)
    /\ UNCHANGED <<raw, edits>>
    /\ UNCHANGED lvars

NextValidate ==
    \/ \E c \in FieldChoices : SetField(c[1], c[2])
    \/ Validate

----------------------------------------------------------------------------
(* Specifications *)

Init ==
    /\ raw = EmptyObj
    /\ edits = 0
    /\ validated = NotRun
    /\ fs = InitialFS
    /\ heap = DefaultHeap.heap
    /\ lc = LcIdle
    /\ gh = GhIdle
    /\ log = <<>>
    /\ results = <<>>
    /\ calls = 0
    /\ mutations = 0
    /\ asked = NotAsked
    /\ gen = GenIdle

\* The loaders, over every kind of config file and every answer of the remote.
Next ==
    \/ \E repoPath \in RepoPaths : LC_PathCheck(repoPath)
    \/ LC_Read
    \/ LC_Parse
    \/ LC_Validate
    \/ GH_Request
    \/ \E settled \in RemoteOutcomes : GH_Settle(settled)

Spec == Init /\ [][Next]_vars

\* The loaders and the generator with callers that assign to the Configs they
\* were handed.
AliasRepoPaths == {"/absent", "/valid"}

AliasOutcomes ==
    {RejectedWith(HttpError(404)), RejectedWith(HttpError(500)),
     Fulfilled(FileResponse(Base64Encode(ValidText)))}

AliasOptions == {EmptyObj, Obj([enableCodeReview |-> JsFalse])}

NextAlias ==
    \/ \E repoPath \in AliasRepoPaths : LC_PathCheck(repoPath)
    \/ LC_Read
    \/ LC_Parse
    \/ LC_Validate
    \/ GH_Request
    \/ \E settled \in AliasOutcomes : GH_Settle(settled)
    \/ \E options \in AliasOptions : Generate(options)
    \/ \E i \in DOMAIN results, path \in MutablePaths : Mutate(i, path)

SpecAlias == Init /\ [][NextAlias]_vars

\* The validator alone, over the documents of at most MaxEdits fields.
SpecValidate == Init /\ [][NextValidate]_vars

\* The loader on the file that names a language outside the enumeration, then
\* the validator over the documents (the two share no state, so the order
\* loses no behaviour).
NextEnums ==
    \/ /\ edits = 0
       /\ validated = NotRun
       /\ calls = 0
       /\ LC_PathCheck("/fr")
    \/ LC_Read
    \/ LC_Parse
    \/ LC_Validate
    \/ /\ lc.pc = "done"
       /\ \E c \in FieldChoices : SetField(c[1], c[2])
    \/ /\ lc.pc = "done"
       /\ Validate

SpecEnums == Init /\ [][NextEnums]_vars

\* The helpers, on the Configs of the documents, on the documents themselves
\* and on DEFAULT_CONFIG; helpers are called once the document is written.
HelperFieldChoices ==
    (BoolLeaves \X {JsTrue, JsFalse})
    \cup (OptionalLeaves \X {Str("abc123")})
    \cup (Sections \X {EmptyObj, Null})

NextHelpers ==
    \/ /\ asked = NotAsked
       /\ \E c \in HelperFieldChoices : SetField(c[1], c[2])
    \/ /\ asked = NotAsked
       /\ Validate
    \/ \E isDraft \in BOOLEAN : AskConfig(isDraft)
    \/ \E isDraft \in BOOLEAN : AskInput(isDraft)
    \/ /\ raw = EmptyObj
       /\ \E isDraft \in BOOLEAN : AskDefault(isDraft)

SpecHelpers == Init /\ [][NextHelpers]_vars

\* The generator.
NextGenerate ==
    \/ \E options \in OptionsRecords \cup LooseOptions : Generate(options)
    \/ \E options \in OptionsRecords : GenerateConfigYAML(options)
    \/ Reparse

SpecGenerate == Init /\ [][NextGenerate]_vars

\* loadConfig while another process creates and deletes the config file.
RaceRepoPaths == {"/absent", "/valid"}

NextRace ==
    \/ \E repoPath \in RaceRepoPaths : LC_PathCheck(repoPath)
    \/ LC_Read
    \/ LC_Parse
    \/ LC_Validate
    \/ \E repoPath \in RaceRepoPaths, text \in RaceTexts : EnvCreate(repoPath, text)
    \/ \E repoPath \in RaceRepoPaths : EnvDelete(repoPath)

SpecRace == Init /\ [][NextRace]_vars

----------------------------------------------------------------------------
(* The claims *)

\* The Config a call returns when nothing has been assigned to any Config.
Pristine(r) ==
    CASE r.op = "generateConfig" ->
             LET g == GenerateConfig(DefaultHeap.heap, r.arg) IN Deref(g.heap, g.slot)
      [] r.op = "loadConfig" ->
             LET f == FileAt(r.arg)
             IN IF f.exists THEN SchemaParse(YamlLoad(f.text).value).value
                ELSE DEFAULT_CONFIG
      [] r.op = "loadConfigFromGitHub" ->
             LET t == GitHubTry(r.arg)
             IN IF t.threw \/ IsRef(t.value) THEN DEFAULT_CONFIG ELSE t.value

\* C1: whatever callers assign in the Configs returned to them, DEFAULT_CONFIG
\* keeps its initial value and every call returns the value it would return
\* had nothing been assigned: no result shares mutable state with
\* DEFAULT_CONFIG or with another call's result.
C1_NoSharedMutableState ==
    /\ Deref(heap, DefaultRef) = DEFAULT_CONFIG
    /\ \A i \in DOMAIN results : results[i].atReturn = Pristine(results[i])

\* C2: validating the empty document succeeds and yields a value deep-equal
\* to DEFAULT_CONFIG (the same sections and fields, the same value for each).
C2_EmptyDocumentIsDefault ==
    (HasRun /\ raw = EmptyObj) =>
        /\ validated.ok
        /\ validated.value = DEFAULT_CONFIG
        /\ DOMAIN validated.value.o =
               {"code_review", "issue_workflow", "code_workspace", "integrations",
                "ignore_patterns", "language"}

C2_Witness == raw = EmptyObj /\ HasRun /\ validated.ok

\* C3: when <root>/.please/config.yml does not exist, loadConfig resolves
\* with a value deep-equal to DEFAULT_CONFIG after the existence check alone:
\* nothing is read and nothing is parsed.
C3_AbsentFileResolvesDefault ==
    (lc.pc = "done" /\ ~fs[lc.configPath].exists) =>
        /\ lc.out.status = "resolved"
        /\ Deref(heap, lc.out.value) = DEFAULT_CONFIG
        /\ lc.steps = <<"path-check">>

C3_Witness ==
    /\ lc.pc = "done"
    /\ lc.repoPath = "/absent"
    /\ ~fs[lc.configPath].exists
    /\ lc.out.status = "resolved"

\* The error yaml.load or ConfigSchema.parse throws for the text of a file,
\* undefined when neither throws.
Cause(text) ==
    LET loaded == YamlLoad(text)
    IN IF loaded.threw THEN loaded.value
       ELSE LET parsed == SchemaParse(loaded.value)
            IN IF parsed.threw THEN parsed.value ELSE Undefined

\* C4: when the config file exists and its text fails to parse or its
\* document fails validation, loadConfig rejects with an Error whose message
\* names the resolved config path and carries the message of the cause; it
\* resolves with no Config.
C4_InvalidFileRejects ==
    (lc.pc = "done" /\ fs[lc.configPath].exists
        /\ Cause(fs[lc.configPath].text) # Undefined) =>
        /\ lc.out.status = "rejected"
        /\ IsError(lc.out.value)
        /\ lc.out.value.message =
               <<"Failed to load config from ", ConfigPath(lc.repoPath), ": ",
                 Cause(fs[lc.configPath].text).message>>
        /\ \A i \in DOMAIN results :
               (results[i].op = "loadConfig" /\ FileAt(results[i].arg).exists) =>
                   Cause(FileAt(results[i].arg).text) = Undefined

C4_Witness ==
    /\ lc.pc = "done"
    /\ lc.repoPath = "/malformed"
    /\ lc.out.status = "rejected"
    /\ lc.steps = <<"path-check", "read", "parse">>

\* The remote answered with content that decodes, parses and validates.
ValidRemoteContent(settled) ==
    LET t == GitHubTry(settled) IN ~t.threw /\ ~IsRef(t.value)

\* C5: for every outcome of the remote other than valid config content,
\* loadConfigFromGitHub resolves with DEFAULT_CONFIG; it never rejects.
C5_RemoteNeverRejects ==
    (gh.pc = "done" /\ ~ValidRemoteContent(gh.settled)) => gh.out = Resolved(DefaultRef)

\* C6: defaults are applied per leaf: in the result of validating a valid
\* partial document every leaf the document sets keeps its value and every
\* leaf it omits has its documented default, siblings of a set leaf included.
C6_LeafGranularDefaults ==
    (HasRun /\ ValidPartialDocument(raw)) =>
        /\ validated.ok
        /\ \A p \in AllLeaves :
               At(validated.value, p) =
                   IF At(raw, p) # Undefined THEN At(raw, p) ELSE DocumentedDefault(p)

C6_Example1 ==
    Obj([language |-> Str("en"), code_review |-> Obj([max_review_comments |-> Num(10)])])

C6_Example2 ==
    Obj([issue_workflow |-> Obj([triage |-> Obj([auto |-> JsTrue])])])

\* C6, the two documents it names.
C6_Examples ==
    /\ (HasRun /\ raw = C6_Example1) =>
           /\ At(validated.value, LanguagePath) = Str("en")
           /\ At(validated.value, MaxCommentsPath) = Num(10)
           /\ At(validated.value, SeverityPath) = Str("MEDIUM")
           /\ At(validated.value, <<"issue_workflow", "fix", "enabled">>) = JsTrue
    /\ (HasRun /\ raw = C6_Example2) =>
           At(validated.value, <<"issue_workflow", "issue_opened", "post_dev_help">>) = JsTrue

\* C6: per-leaf defaults for every valid partial document, and for the two
\* documents the claim names.
C6_Theorem == C6_LeafGranularDefaults /\ C6_Examples

C6_Witness ==
    /\ HasRun
    /\ validated.ok
    /\ At(raw, <<"code_review", "pull_request_opened", "help">>) = JsTrue
    /\ At(raw, <<"code_review", "pull_request_opened", "summary">>) = Undefined

\* The keys of the object at section p of a validated Config of document d:
\* the keys of the schema, an optional one only when the document sets it.
ExpectedKeys(d, p) ==
    {key \in ShapeKeys(p) :
        Append(p, key) \in OptionalLeaves => At(d, Append(p, key)) # Undefined}

\* C7 as stated: every valid partial document validates, the result has all
\* the sections, every field of every nested object is populated and
\* unknown fields are dropped.
C7_EveryFieldPopulated ==
    (HasRun /\ ValidPartialDocument(raw)) =>
        /\ validated.ok
        /\ \A p \in Sections : IsObj(At(validated.value, p))
        /\ \A p \in AllLeaves : At(validated.value, p) # Undefined
        /\ \A p \in UnknownPaths : At(validated.value, p) = Undefined

\* C7 as amended: every valid partial document validates and the result has
\* exactly the schema's shape: all the sections, every field that has a
\* default populated, the optional integration fields (page_id, database_id,
\* webhook_url, channel) present exactly when the document sets them, and
\* no unknown field.
C7_SchemaShape ==
    (HasRun /\ ValidPartialDocument(raw)) =>
        /\ validated.ok
        /\ DOMAIN validated.value.o = ShapeKeys(<<>>)
        /\ \A p \in Sections :
               /\ IsObj(At(validated.value, p))
               /\ DOMAIN At(validated.value, p).o = ExpectedKeys(raw, p)
        /\ \A p \in DefaultedLeaves : At(validated.value, p) # Undefined
        /\ \A p \in OptionalLeaves : At(validated.value, p) = At(raw, p)
        /\ \A p \in UnknownPaths : At(validated.value, p) = Undefined

C7_Witness ==
    /\ HasRun
    /\ validated.ok
    /\ At(raw, <<"issue_workflow", "triage", "extra">>) # Undefined
    /\ At(raw, <<"integrations">>) = Undefined
    /\ At(validated.value, <<"integrations", "notion", "enabled">>) = JsFalse

\* The issues of a failed validation name the path.
Names(issues, path) == \E i \in issues : i.path = path

\* C8: a document that gives language a value other than ko or en, or
\* comment_severity_threshold a value other than LOW, MEDIUM or HIGH (in that
\* exact case), is rejected with an issue at the field's path; and loadConfig
\* on the file with language: fr rejects with an Error that names the
\* config path and the field path language.
C8_ClosedEnums ==
    /\ (HasRun /\ At(raw, LanguagePath) \notin {Undefined, Str("ko"), Str("en")}) =>
           ~validated.ok /\ Names(validated.issues, LanguagePath)
    /\ (HasRun /\ IsObj(At(raw, <<"code_review">>))
            /\ At(raw, SeverityPath) \notin {Undefined, Str("LOW"), Str("MEDIUM"), Str("HIGH")}) =>
           ~validated.ok /\ Names(validated.issues, SeverityPath)
    /\ (lc.pc = "done" /\ lc.repoPath = "/fr") =>
           /\ lc.out.status = "rejected"
           /\ IsError(lc.out.value)
           /\ lc.out.value.message[2] = ConfigPath("/fr")
           /\ Names(lc.out.value.message[4], LanguagePath)

C8_Witness ==
    /\ lc.pc = "done"
    /\ lc.repoPath = "/fr"
    /\ lc.steps = <<"path-check", "read", "parse", "validate">>
    /\ HasRun
    /\ At(raw, LanguagePath) = Str("EN")
    /\ At(raw, SeverityPath) = Str("medium")

\* C9: a validated Config carries a max_review_comments that is -1 or at
\* least 0: a document with any other negative value is rejected.
C9_SentinelOrNonNegative ==
    (HasRun /\ validated.ok) =>
        LET n == At(validated.value, MaxCommentsPath)
        IN n.k = "number" /\ (n.n = -1 \/ n.n >= 0)

\* C10: a document that gives a section or a defaulted leaf the value null
\* validates to what the document without that field validates to, and a
\* document that gives a section the empty object validates with all of the
\* section's defaults.
C10_NullIsAbsent ==
    HasRun =>
        /\ \A p \in Sections \cup DefaultedLeaves :
               At(raw, p) = Null => validated = ConfigSchema(Remove(raw, p))
        /\ \A p \in Sections :
               At(raw, p) = EmptyObj =>
                   validated.ok /\ At(validated.value, p) = At(DEFAULT_CONFIG, p)

\* C11: generateConfig returns, for every options record, a Config whose
\* language is options.language when given (the default otherwise), whose
\* code_review.disable is true exactly when enableCodeReview is false, whose
\* issue_workflow.disable is true exactly when enableIssueWorkflow is false,
\* and that equals DEFAULT_CONFIG in everything else, whatever other fields
\* the options hold.
C11_GenerateOverridesThreeFields ==
    \A i \in DOMAIN results :
        results[i].op = "generateConfig" =>
            LET o == results[i].arg
                c == results[i].atReturn
            IN /\ At(c, LanguagePath) =
                      IF Nullish(Get(o, "language")) THEN Str("ko") ELSE Get(o, "language")
               /\ At(c, <<"code_review", "disable">>) =
                      Bool(Get(o, "enableCodeReview") = JsFalse)
               /\ At(c, <<"issue_workflow", "disable">>) =
                      Bool(Get(o, "enableIssueWorkflow") = JsFalse)
               /\ Put(Put(Put(c, LanguagePath, Str("ko")),
                          <<"code_review", "disable">>, JsFalse),
                      <<"issue_workflow", "disable">>, JsFalse) = DEFAULT_CONFIG

C11_Witness ==
    \E i \in DOMAIN results :
        /\ results[i].op = "generateConfig"
        /\ results[i].arg = Obj([language |-> Str("en"), enableCodeReview |-> JsFalse,
                                 enableIssueWorkflow |-> JsTrue])
        /\ At(results[i].atReturn, <<"code_review", "disable">>) = JsTrue
        /\ At(results[i].atReturn, <<"issue_workflow", "disable">>) = JsFalse

\* C12: for every options record o, the text of generateConfigYAML(o) parses
\* and validates, and the validated Config is deep-equal to generateConfig(o).
C12_RoundTrip ==
    gen.pc = "reparsed" =>
        /\ ~gen.back.threw
        /\ LET made == GenerateConfig(heap, gen.options)
           IN gen.back.value = Deref(made.heap, made.slot)

C12_Witness ==
    /\ gen.pc = "reparsed"
    /\ gen.options = Obj([language |-> Str("en"), enableCodeReview |-> JsFalse])
    /\ ~gen.back.threw
    /\ At(gen.back.value, <<"code_review", "disable">>) = JsTrue

\* The helpers were called with a Config: a validated one or DEFAULT_CONFIG.
AskedOfConfig == asked.on \in {"config", "default"}

\* C13: for every Config c and flag isDraft, shouldReviewPR(c, isDraft) is
\* false when code_review.disable is true, else false when isDraft is true
\* and pull_request_opened.include_drafts is false, else the value of
\* pull_request_opened.code_review.
C13_ShouldReviewPR ==
    AskedOfConfig =>
        LET c == asked.config
            pro == <<"code_review", "pull_request_opened">>
        IN asked.answers.shouldReviewPR =
               Returned(IF At(c, <<"code_review", "disable">>) = JsTrue THEN JsFalse
                        ELSE IF asked.isDraft /\ At(c, pro \o <<"include_drafts">>) = JsFalse
                             THEN JsFalse
                        ELSE At(c, pro \o <<"code_review">>))

C13_Witness ==
    /\ asked.on = "config"
    /\ asked.isDraft
    /\ At(asked.config, <<"code_review", "disable">>) = JsFalse
    /\ At(asked.config, <<"code_review", "pull_request_opened", "include_drafts">>) = JsFalse
    /\ At(asked.config, <<"code_review", "pull_request_opened", "code_review">>) = JsTrue
    /\ asked.answers.shouldReviewPR = Returned(JsFalse)

\* C14: for every Config with issue_workflow.disable true, isAutoTriageEnabled,
\* isManualTriageEnabled, isInvestigateEnabled, isFixEnabled and
\* shouldAutoInvestigateOnBugLabel return false whatever the sub-feature's
\* own flag; and for every Config shouldAutoInvestigateOnBugLabel is true
\* only if isInvestigateEnabled is true.
C14_GatedByIssueWorkflowDisable ==
    AskedOfConfig =>
        LET a == asked.answers
        IN /\ At(asked.config, <<"issue_workflow", "disable">>) = JsTrue =>
                  \A helper \in {"isAutoTriageEnabled", "isManualTriageEnabled",
                                 "isInvestigateEnabled", "isFixEnabled",
                                 "shouldAutoInvestigateOnBugLabel"} :
                      a[helper] = Returned(JsFalse)
           /\ a.shouldAutoInvestigateOnBugLabel = Returned(JsTrue) =>
                  a.isInvestigateEnabled = Returned(JsTrue)

C14_Witness ==
    /\ asked.on = "config"
    /\ At(asked.config, <<"issue_workflow", "disable">>) = JsTrue
    /\ At(asked.config, <<"issue_workflow", "fix", "enabled">>) = JsTrue
    /\ At(asked.config, <<"issue_workflow", "investigate", "enabled">>) = JsTrue
    /\ asked.answers.isFixEnabled = Returned(JsFalse)
    /\ asked.answers.isInvestigateEnabled = Returned(JsFalse)

\* C15: isCodeWorkspaceEnabled returns code_workspace.enabled when the section
\* is present and false when the section, or its enabled field, is absent on
\* a loosely typed input; on every Config validated from a document that
\* omits code_workspace, {} and DEFAULT_CONFIG included, it returns true.
C15_CodeWorkspaceEnabled ==
    LET section == Prop(asked.config, "code_workspace")
        present == IsObj(section) /\ "enabled" \in DOMAIN section.o
    IN /\ asked.on # "none" =>
              asked.answers.isCodeWorkspaceEnabled =
                  Returned(IF present THEN Get(section, "enabled") ELSE JsFalse)
       /\ asked.on = "config" /\ "code_workspace" \notin DOMAIN raw.o =>
              asked.answers.isCodeWorkspaceEnabled = Returned(JsTrue)
       /\ asked.on = "default" =>
              asked.answers.isCodeWorkspaceEnabled = Returned(JsTrue)

C15_Witness ==
    /\ asked.on = "input"
    /\ "code_workspace" \notin DOMAIN asked.config.o
    /\ asked.config # EmptyObj
    /\ asked.answers.isCodeWorkspaceEnabled = Returned(JsFalse)

\* The field at path is there: every object on the way and the field itself.
RECURSIVE Present(_, _)
Present(v, path) ==
    \/ path = <<>>
    \/ /\ IsObj(v)
       /\ Head(path) \in DOMAIN v.o
       /\ Present(Get(v, Head(path)), Tail(path))

\* The optional-section helpers: the field each reads and its fallback.
OptionalSectionHelpers ==
    {<<"isDevHelpEnabled", <<"issue_workflow", "issue_opened", "post_dev_help">>, JsTrue>>,
     <<"isAutoReviewEnabled", <<"code_review", "pull_request_opened", "code_review">>, JsTrue>>,
     <<"isNotionEnabled", <<"integrations", "notion", "enabled">>, JsFalse>>,
     <<"isSlackEnabled", <<"integrations", "slack", "enabled">>, JsFalse>>,
     <<"getNotionPageId", <<"integrations", "notion", "page_id">>, Undefined>>,
     <<"getNotionDatabaseId", <<"integrations", "notion", "database_id">>, Undefined>>,
     <<"getSlackWebhookUrl", <<"integrations", "slack", "webhook_url">>, Undefined>>}

\* C16: the optional-section helpers never throw; when the section, the
\* sub-section or the field is absent they return their fallback
\* (isDevHelpEnabled and isAutoReviewEnabled true, isNotionEnabled and
\* isSlackEnabled false, the three getters undefined) and when the field is
\* present its value. On DEFAULT_CONFIG isDevHelpEnabled is true,
\* isNotionEnabled and isSlackEnabled are false and the getters return
\* undefined.
C16_OptionalSectionFallbacks ==
    /\ asked.on # "none" =>
           \A h \in OptionalSectionHelpers :
               asked.answers[h[1]] =
                   Returned(IF Present(asked.config, h[2])
                            THEN At(asked.config, h[2]) ELSE h[3])
    /\ asked.on = "default" =>
           /\ asked.answers.isDevHelpEnabled = Returned(JsTrue)
           /\ asked.answers.isNotionEnabled = Returned(JsFalse)
           /\ asked.answers.isSlackEnabled = Returned(JsFalse)
           /\ asked.answers.getNotionPageId = Returned(Undefined)
           /\ asked.answers.getNotionDatabaseId = Returned(Undefined)
           /\ asked.answers.getSlackWebhookUrl = Returned(Undefined)

C16_Witness ==
    /\ asked.on = "input"
    /\ "integrations" \notin DOMAIN asked.config.o
    /\ Prop(asked.config, "issue_workflow") = EmptyObj
    /\ asked.answers.isSlackEnabled = Returned(JsFalse)
    /\ asked.answers.isDevHelpEnabled = Returned(JsTrue)
    /\ asked.answers.getSlackWebhookUrl = Returned(Undefined)

\* The non-gating helpers and the field each reads.
NonGatingHelpers ==
    {<<"isDevHelpEnabled", <<"issue_workflow", "issue_opened", "post_dev_help">> >>,
     <<"shouldUpdateIssueType", <<"issue_workflow", "triage", "update_issue_type">> >>,
     <<"investigateRequiresOrgMembership",
       <<"issue_workflow", "investigate", "org_members_only">> >>,
     <<"fixRequiresOrgMembership", <<"issue_workflow", "fix", "org_members_only">> >>,
     <<"fixRequiresInvestigation", <<"issue_workflow", "fix", "require_investigation">> >>,
     <<"shouldAutoCreatePR", <<"issue_workflow", "fix", "auto_create_pr">> >>,
     <<"shouldAutoRunTests", <<"issue_workflow", "fix", "auto_run_tests">> >>,
     <<"isAutoReviewEnabled", <<"code_review", "pull_request_opened", "code_review">> >>,
     <<"shouldShowHelp", <<"code_review", "pull_request_opened", "help">> >>,
     <<"shouldShowSummary", <<"code_review", "pull_request_opened", "summary">> >>}

\* C20: for every Config the non-gating helpers return the raw value of
\* their field whatever the disable flag of the section says: those of
\* issue_workflow when issue_workflow.disable is true, and isAutoReviewEnabled,
\* shouldShowHelp and shouldShowSummary when code_review.disable is true.
C20_NonGatingIgnoreDisable ==
    AskedOfConfig =>
        \A h \in NonGatingHelpers :
            asked.answers[h[1]] = Returned(At(asked.config, h[2]))

\* code_review and issue_workflow disabled: isAutoReviewEnabled and
\* shouldShowSummary are true while shouldReviewPR(c, false) is false.
C20_Witness ==
    /\ asked.on = "config"
    /\ ~asked.isDraft
    /\ At(asked.config, <<"code_review", "disable">>) = JsTrue
    /\ At(asked.config, <<"issue_workflow", "disable">>) = JsTrue
    /\ asked.answers.isAutoReviewEnabled = Returned(JsTrue)
    /\ asked.answers.shouldShowSummary = Returned(JsTrue)
    /\ asked.answers.shouldAutoRunTests = Returned(JsTrue)
    /\ asked.answers.shouldReviewPR = Returned(JsFalse)

\* The remote signalled not-found: the request failed with status 404.
NotFound(settled) ==
    settled.state = "rejected" /\ Prop(settled.value, "status") = Num(404)

\* C17: in loadConfigFromGitHub every outcome of the remote that is neither
\* valid config content nor a not-found signal (a network or auth failure, a
\* response without file content such as a directory listing or empty
\* content, undecodable, unparsable or schema-invalid content) causes exactly
\* one log record before DEFAULT_CONFIG is returned; a not-found outcome and
\* a successful load emit none.
C17_OneLogRecordPerAnomaly ==
    [][(gh.pc = "pending" /\ gh'.pc = "done") =>
           IF ValidRemoteContent(gh'.settled) \/ NotFound(gh'.settled)
           THEN log' = log
           ELSE /\ Len(log') = Len(log) + 1
                /\ gh'.out = Resolved(DefaultRef)]_vars

\* The steps of a loadConfig call, in the order of the code.
LoadConfigSteps == <<"path-check", "read", "parse", "validate">>

\* C18: every loadConfig call follows path-check, then for a present file
\* read and parse, then validate, and ends in exactly one of four outcomes:
\* defaults for an absent file, failure of the read and parse, failure of the
\* validation, or the validated Config. The file is read only after the check
\* found it, validation runs only after parsing succeeded, and a Config other
\* than the default is returned only after validation succeeded.
C18_LoadConfigStateMachine ==
    LET n == Len(lc.steps)
        loaded == YamlLoad(lc.fileContents)
        done == lc.pc = "done"
        absent == done /\ n = 1 /\ lc.out = Resolved(DefaultRef)
        parseFailed == done /\ n \in {2, 3} /\ lc.out.status = "rejected"
        invalid == done /\ n = 4 /\ lc.out.status = "rejected"
        valid == done /\ n = 4 /\ lc.out.status = "resolved" /\ lc.out.value # DefaultRef
    IN /\ lc.steps = SubSeq(LoadConfigSteps, 1, n)
       /\ done => Cardinality({k \in 1 .. 4 :
                                   <<absent, parseFailed, invalid, valid>>[k]}) = 1
       /\ ~done => lc.out = Pending
       /\ n >= 2 => fs[lc.configPath].exists
       /\ n = 1 /\ done => ~fs[lc.configPath].exists
       /\ n = 3 /\ done => loaded.threw
       /\ n = 4 => ~loaded.threw /\ lc.rawConfig = loaded.value
       /\ invalid => SchemaParse(lc.rawConfig).threw
       /\ (done /\ lc.out.status = "resolved" /\ lc.out.value # DefaultRef) =>
              /\ n = 4
              /\ ~SchemaParse(lc.rawConfig).threw
              /\ Deref(heap, lc.out.value) = SchemaParse(lc.rawConfig).value

C18_Witness ==
    /\ lc.pc = "done"
    /\ lc.steps = LoadConfigSteps
    /\ lc.out.status = "resolved"
    /\ lc.out.value # DefaultRef
    /\ calls = MaxCalls
    /\ \E i \in DOMAIN results :
           results[i].op = "loadConfig" /\ results[i].slot = DefaultRef

\* C19: loadConfig decides that the file is absent from its existence check
\* alone. While another process creates and deletes the file, the call
\* returns DEFAULT_CONFIG exactly when that check saw no file, and only then;
\* a file deleted between the check and the read makes the call fail with an
\* error naming the path; a file created after the check leaves the
\* defaults returned.
C19_AbsentOnlyFromCheck ==
    /\ [][calls' = calls + 1 =>
              /\ lc'.steps = <<"path-check">>
              /\ (lc'.out = Resolved(DefaultRef)) <=> ~fs[lc'.configPath].exists]_vars
    /\ []((lc.pc = "done" /\ lc.out = Resolved(DefaultRef)) => lc.steps = <<"path-check">>)
    /\ []((lc.pc = "done" /\ lc.steps = <<"path-check", "read">>) =>
              /\ lc.out.status = "rejected"
              /\ IsError(lc.out.value)
              /\ lc.out.value.message[2] = lc.configPath)
    /\ [][(lc.out = Resolved(DefaultRef) /\ fs' # fs) => lc'.out = Resolved(DefaultRef)]_vars

\* The file was there at the check and gone at the read.
C19_Witness ==
    /\ lc.pc = "done"
    /\ lc.steps = <<"path-check", "read">>
    /\ lc.out.status = "rejected"
    /\ lc.out.value.message[2] = ConfigPath(lc.repoPath)
    /\ ~fs[lc.configPath].exists

\* A text that holds no document: empty, or comments only.
NoDocument(text) == \A i \in DOMAIN text : text[i].key = "#"

\* The remote answered with a file whose content is the empty string.
EmptyContent(settled) ==
    /\ settled.state = "fulfilled"
    /\ At(settled.value, <<"data", "content">>) = Str("")

\* The remote answered with a file whose content is not empty and decodes to
\* a text that holds no document.
CommentOnlyContent(settled) ==
    /\ settled.state = "fulfilled"
    /\ LET content == At(settled.value, <<"data", "content">>)
       IN /\ content.k = "string"
          /\ "base64" \in DOMAIN content
          /\ content.base64 # <<>>
          /\ NoDocument(content.base64)

\* C21: a config that is present but holds no document (empty or comments
\* only) is not treated as {}. loadConfig fails with an error naming the
\* resolved path; loadConfigFromGitHub returns DEFAULT_CONFIG, without a log
\* record when the content is empty and after one log record when the content
\* is not empty; neither loader returns a Config validated from {}.
C21_NoDocumentIsNotEmptyMapping ==
    /\ []((lc.pc = "done" /\ fs[lc.configPath].exists /\ NoDocument(fs[lc.configPath].text)) =>
              /\ lc.out.status = "rejected"
              /\ IsError(lc.out.value)
              /\ lc.out.value.message[1] = "Failed to load config from "
              /\ lc.out.value.message[2] = ConfigPath(lc.repoPath))
    /\ []((gh.pc = "done" /\ (EmptyContent(gh.settled) \/ CommentOnlyContent(gh.settled))) =>
              gh.out = Resolved(DefaultRef))
    /\ [][(gh.pc = "pending" /\ gh'.pc = "done") =>
              /\ EmptyContent(gh'.settled) => log' = log
              /\ CommentOnlyContent(gh'.settled) => Len(log') = Len(log) + 1]_vars
    /\ [](\A i \in DOMAIN results :
              /\ (results[i].op = "loadConfig" /\ FileAt(results[i].arg).exists) =>
                     ~NoDocument(FileAt(results[i].arg).text)
              /\ (results[i].op = "loadConfigFromGitHub"
                     /\ (EmptyContent(results[i].arg) \/ CommentOnlyContent(results[i].arg))) =>
                     results[i].slot = DefaultRef)

\* loadConfig has failed on the comment-only file and loadConfigFromGitHub has
\* logged and returned the default for comment-only content.
C21_Witness ==
    /\ lc.pc = "done"
    /\ lc.repoPath = "/comments"
    /\ lc.steps = LoadConfigSteps
    /\ lc.out.status = "rejected"
    /\ gh.pc = "done"
    /\ CommentOnlyContent(gh.settled)
    /\ gh.out = Resolved(DefaultRef)
    /\ Len(log) = 1

====
